---- MODULE Spec2Model ----
(***************************************************************************)
(* Model of app.py: the Flask prediction-serving layer.  The three POST    *)
(* handlers (predict_group, predict_revenue, predict_all) are modelled as  *)
(* per-thread state machines over a process-wide model registry MODELS.    *)
(* A handler is cut into steps only at the calls it makes into shared or   *)
(* foreign code (feature preparation, model inference); everything between *)
(* two such calls is part of one step.                                     *)
(***************************************************************************)
EXTENDS Integers, Sequences, FiniteSets, TLC

VARIABLES models, pc, req, frame, resp

vars == <<models, pc, req, frame, resp>>

(***************************************************************************)
(* Bounds of the model.                                                    *)
(***************************************************************************)
\* Field values of a payload range over 0..MaxVal.
MaxVal == 1
\* A payload lacks at most MaxMissing of the fields, or is the empty object.
MaxMissing == 2

Values == 0..MaxVal

\* A JSON value that is not a number (a string such as "abc"), kept apart from
\* every number a field carries.
NotANumber == -1
IsNumber(v) == v # NotANumber

\* Flask runs handlers on threads; the sequential specification uses one.
AllThreads == {1, 2}
SeqThreads == {1}
ConcThreads == {1, 2}

(***************************************************************************)
(* Request vocabulary.                                                     *)
(***************************************************************************)
\* request.args.get(name, default) sees an absent parameter as NoArg.
NoArg == "<absent>"
None == "None"

\* required of predict_group and of predict_all is a set, that of
\* predict_revenue a list.
GroupRequired == {"NetQuantity", "NetRevenue", "NumTransactions", "NumUniqueCustomers"}

RevenueRequired == <<"NetRevenue", "NetRevenue_LastMonth", "NetRevenue_MA3", "Month", "ProductFrequency">>

AllRequired == {"NetRevenue", "NetQuantity", "NumTransactions", "NumUniqueCustomers", "NetRevenue_LastMonth", "NetRevenue_MA3", "Month", "ProductFrequency"}

Range(s) == {s[i] : i \in 1..Len(s)}

Fields == AllRequired

\* The selector sets the /api self-description documents for each endpoint.
DocGroupModels == {"kmeans", "dbscan"}
DocRevModels == {"random_forest", "xgboost"}

SelectorValues == {NoArg, "kmeans", "dbscan", "random_forest", "xgboost", "bogus"}
DebugValues == {NoArg, "0", "1", "true"}

\* JSON object bodies: every present field carries the same number v.
PayloadKeys == {S \in SUBSET Fields : Cardinality(Fields \ S) <= MaxMissing}
Payloads == UNION {{[f \in S |-> v] : v \in Values} : S \in PayloadKeys}
FullPayloads == {[f \in Fields |-> v] : v \in Values}

Args(m, g, r, d) == [model |-> m, group_model |-> g, rev_model |-> r, debug |-> d]

\* Bodies with every field present, one of them not a number: a field every
\* endpoint requires, or one only the regression requires.
NonNumericPayloads ==
    {[f \in Fields |-> IF f = bad THEN NotANumber ELSE v] :
        bad \in {"NetRevenue", "Month"}, v \in Values}

NonNumericRequests ==
    {[endpoint |-> e, args |-> Args(m, NoArg, NoArg, NoArg), data |-> p] :
        e \in {"predict_group", "predict_revenue"}, m \in SelectorValues, p \in NonNumericPayloads}
    \cup
    {[endpoint |-> "predict_all", args |-> Args(NoArg, g, NoArg, d), data |-> p] :
        g \in {NoArg, "dbscan"}, d \in {NoArg, "1"}, p \in NonNumericPayloads}

\* The empty object {}: sent to predict_group and predict_revenue with every
\* selector, to predict_all with absent or undocumented selectors.
EmptyBody == [f \in {} |-> 0]

EmptyBodyRequests ==
    {[endpoint |-> e, args |-> Args(m, NoArg, NoArg, NoArg), data |-> EmptyBody] :
        e \in {"predict_group", "predict_revenue"}, m \in SelectorValues}
    \cup
    {[endpoint |-> "predict_all", args |-> Args(NoArg, g, r, NoArg), data |-> EmptyBody] :
        g \in {NoArg, "bogus"}, r \in {NoArg, "bogus"}}

Requests ==
    {[endpoint |-> "predict_group", args |-> Args(m, NoArg, NoArg, NoArg), data |-> p] :
        m \in SelectorValues, p \in Payloads}
    \cup
    {[endpoint |-> "predict_revenue", args |-> Args(m, NoArg, NoArg, NoArg), data |-> p] :
        m \in SelectorValues, p \in Payloads}
    \cup
    {[endpoint |-> "predict_all", args |-> Args(NoArg, a[1], a[2], a[3]), data |-> p] :
        a \in SelectorValues \X SelectorValues \X DebugValues, p \in Payloads}
    \cup EmptyBodyRequests
    \cup NonNumericRequests

\* The requests of the concurrent specification: a documented or defaulted
\* selector and every field present.
ConcRequests ==
    {[endpoint |-> "predict_group", args |-> Args(m, NoArg, NoArg, NoArg), data |-> p] :
        m \in {NoArg, "dbscan"}, p \in FullPayloads}
    \cup
    {[endpoint |-> "predict_revenue", args |-> Args(NoArg, NoArg, NoArg, NoArg), data |-> p] :
        p \in FullPayloads}
    \cup
    {[endpoint |-> "predict_all", args |-> Args(NoArg, g, NoArg, d), data |-> p] :
        g \in {"kmeans", "dbscan"}, d \in {NoArg, "1"}, p \in FullPayloads}

\* request.args.get(name, default)
ArgGet(args, name, default) == IF args[name] = NoArg THEN default ELSE args[name]

(***************************************************************************)
(* The model registry and the model objects.                               *)
(***************************************************************************)
\* Fitted attributes of the DBSCAN estimator as stored in the artifact.
TrainLabels == <<0, 0, -1>>
TrainComponents == <<<<-1, -1, -1, -1>>, <<1, 1, 1, 1>>>>

\* min_samples is a hyperparameter of the stored estimator (5 is sklearn's
\* default); a fit never changes it.
MinSamplesChoices == {1, 5}

\* MODELS as loaded at import.
MODELS(ms) ==
    [kmeans |-> [cls |-> "KMeans"],
     dbscan |-> [cls |-> "DBSCAN", min_samples |-> ms, labels_ |-> TrainLabels,
                 components_ |-> TrainComponents],
     random_forest |-> [cls |-> "RandomForestRegressor"],
     xgboost |-> [cls |-> "XGBRegressor"]]

\* Only clustering estimators have a fit_predict method.
HasFitPredict(m) == m.cls \in {"KMeans", "DBSCAN"}

(***************************************************************************)
(* utils and business_interpretation: pure helpers.                        *)
(***************************************************************************)
\* The stored scaler: an affine map of each feature.
Scale(x) == 2 * x - 1

\* The column order of the grouping features.
GroupFeatures == <<"NetRevenue", "NetQuantity", "NumTransactions", "NumUniqueCustomers">>

\* prepare_features_from_json: the four grouping fields, in order, scaled.
prepare_features_from_json(data) == [i \in 1..Len(GroupFeatures) |-> Scale(data[GroupFeatures[i]])]

\* prepare_regression_features_from_json: the five regression fields, scaled.
prepare_regression_features_from_json(data) == [i \in 1..Len(RevenueRequired) |-> Scale(data[RevenueRequired[i]])]

\* A feature preparation takes the body when each field it reads is a number.
Convertible(features, data) == \A i \in 1..Len(features) : IsNumber(data[features[i]])

\* The outcomes of a call into utils or an estimator (TRUE: it returns, FALSE:
\* it raises).  It raises on input it cannot take; on input it can take it
\* returns or, where faults of the callee are considered, raises as well.
Outcomes(accepts, faults) == IF ~accepts THEN {FALSE} ELSE IF faults THEN BOOLEAN ELSE {TRUE}

Abs(x) == IF x < 0 THEN -x ELSE x

\* signed_expm1(x) = sign(x) * (e^|x| - 1), the inverse of a signed log1p;
\* over the integers with base 2.
signed_expm1(x) == IF x < 0 THEN -(2 ^ Abs(x) - 1) ELSE 2 ^ Abs(x) - 1

Interpretation(name, desc, action) == [cluster_name |-> name, description |-> desc, recommended_action |-> action]

KMEANS_BUSINESS ==
    [c \in {0, 1} |-> Interpretation(IF c = 0 THEN "low volume products" ELSE "high volume products",
                                      "kmeans segment", "kmeans action")]

DBSCAN_BUSINESS == [c \in {0} |-> Interpretation("core products", "dbscan segment", "dbscan action")]

\* dict.get(key, default) and dict.get(key)
Get(d, k, default) == IF k \in DOMAIN d THEN d[k] ELSE default
GetOrNone(d, k) == Get(d, k, None)

(***************************************************************************)
(* Inference of the stored estimators.                                     *)
(***************************************************************************)
\* KMeans.predict: index of the nearest centroid of the one row.  The stored
\* estimator is an opaque artifact: a stand-in with two centroids.
KMeansPredict(X) == IF X[1] < 0 THEN 0 ELSE 1

\* DBSCAN.fit on the matrix X_scaled, whose one row is X: a row is a core
\* sample when at least min_samples rows, itself included, lie within eps of
\* it, which of the rows of a one-row matrix is the row itself.  Core rows
\* get cluster 0, the others are noise (-1); components_ holds the core rows.
FitRows(X) == <<X>>
DbscanNeighbours(rows, i) == {j \in 1..Len(rows) : rows[j] = rows[i]}
DbscanCore(m, rows, i) == Cardinality(DbscanNeighbours(rows, i)) >= m.min_samples
DbscanLabels(m, X) ==
    [i \in 1..Len(FitRows(X)) |-> IF DbscanCore(m, FitRows(X), i) THEN 0 ELSE -1]
DbscanComponents(m, X) ==
    SelectSeq(FitRows(X), LAMBDA row : Cardinality({j \in 1..Len(FitRows(X)) : FitRows(X)[j] = row}) >= m.min_samples)

\* The regressors' predict on the one row (log-scale revenue).  The stored
\* regressors are opaque artifacts: a stand-in that tells the two apart.
RegressorPredict(key, X) == IF key = "xgboost" THEN X[1] + 1 ELSE X[1]

(***************************************************************************)
(* Responses.                                                              *)
(***************************************************************************)
InvalidGroupModelMsg == "Invalid model. Use model='kmeans' or model='dbscan'."
InvalidRevModelMsg == "Invalid model. Use model='xgboost' or model='random_forest'."
InvalidAllGroupMsg == "Invalid group_model. Use group_model='kmeans' or 'dbscan'."
InvalidAllRevMsg == "Invalid rev_model. Use rev_model='xgboost' or 'random_forest'."
MissingFieldsMsg == "Missing fields: "
FailedMsg == "Failed to prepare/predict: "

\* str(e) of the exceptions a call can raise.
PrepErrorText == "could not build the feature vector"
InferErrorText == "estimator rejected the input"
AttributeErrorText == "object has no attribute 'fit_predict'"

\* jsonify({"error": ...}), status: the message and what is interpolated in it.
ErrorResponse(status, msg, detail) == [status |-> status, body |-> [error |-> [msg |-> msg, detail |-> detail]]]

\* No response yet / validation passed.
NoResponse == [status |-> 0, body |-> <<>>]

\* "k not in data" as a truthiness test, "not data.get(k)", would compute it:
\* true of a present field whose value is 0 too.
IsMissingFalsy(k, data) == k \notin DOMAIN data \/ data[k] = 0

\* k not in data
IsMissing(k, data) == k \notin DOMAIN data

\* The orders in which a Python set can be iterated: the order follows the
\* string hashes of the process, so every enumeration of the members.
RECURSIVE Orders(_)
Orders(S) == IF S = {} THEN {<<>>} ELSE UNION {{<<x>> \o o : o \in Orders(S \ {x})} : x \in S}

\* missing = [k for k in required if k not in data], required a list
MissingOfList(required, data) == SelectSeq(required, LAMBDA k : IsMissing(k, data))

\* missing = [k for k in required if k not in data], required a set: the
\* values missing can have, one per iteration order of required.
MissingOfSet(required, data) == Orders({k \in required : IsMissing(k, data)})

\* f"${pred:,.2f}"
FormatCurrency(p) == [symbol |-> "$", amount |-> p, decimals |-> 2]

GroupFallback == [cluster_name |-> "unknown product cluster", description |-> ""]
AllFallback == [cluster_name |-> "unknown product cluster", description |-> "", recommended_action |-> ""]

GroupChoice(r) == ArgGet(r.args, "model", "kmeans")
RevChoice(r) == ArgGet(r.args, "model", "xgboost")
AllGroupChoice(r) == ArgGet(r.args, "group_model", "kmeans")
AllRevChoice(r) == ArgGet(r.args, "rev_model", "xgboost")

\* if choice not in MODELS
GroupSelectorValid(choice) == choice \in DOMAIN models
\* if choice not in ("random_forest", "xgboost")
RevSelectorValid(choice) == choice \in {"random_forest", "xgboost"}
\* if group_choice not in ("kmeans", "dbscan")
AllGroupSelectorValid(choice) == choice \in {"kmeans", "dbscan"}

MissingResponse(missing) ==
    IF missing # <<>> THEN ErrorResponse(400, MissingFieldsMsg, missing) ELSE NoResponse

\* The selector and required-field checks that open each handler: the
\* responses they can end in (NoResponse: the handler goes on).
ValidateGroup(r) ==
    IF ~GroupSelectorValid(GroupChoice(r))
    THEN {ErrorResponse(400, InvalidGroupModelMsg, <<>>)}
    ELSE {MissingResponse(m) : m \in MissingOfSet(GroupRequired, r.data)}

ValidateRevenue(r) ==
    IF ~RevSelectorValid(RevChoice(r))
    THEN {ErrorResponse(400, InvalidRevModelMsg, <<>>)}
    ELSE {MissingResponse(MissingOfList(RevenueRequired, r.data))}

ValidateAll(r) ==
    IF ~AllGroupSelectorValid(AllGroupChoice(r))
    THEN {ErrorResponse(400, InvalidAllGroupMsg, <<>>)}
    ELSE IF ~RevSelectorValid(AllRevChoice(r))
    THEN {ErrorResponse(400, InvalidAllRevMsg, <<>>)}
    ELSE {MissingResponse(m) : m \in MissingOfSet(AllRequired, r.data)}

\* FailedResponse with the status left out of the return: Flask answers 200.
FailedResponseDefaultStatus(text) == ErrorResponse(200, FailedMsg, <<text>>)

\* except Exception as e: return jsonify({"error": f"Failed ...: {str(e)}"}), 500
FailedResponse(text) == ErrorResponse(500, FailedMsg, <<text>>)

\* The success bodies.
GroupBody(model_used, cluster, business, data) ==
    [model_used |-> model_used, predicted_group |-> cluster, group_info |-> business, input_data |-> data]

\* RevenueModelName with the two display names exchanged.
RevenueModelNameSwapped(choice) == IF choice = "random_forest" THEN "XGBoost" ELSE "Random Forest"

\* "XGBoost" if choice == "xgboost" else "Random Forest"
RevenueModelName(choice) == IF choice = "xgboost" THEN "XGBoost" ELSE "Random Forest"

\* RevenueBody with the revenue under another key.
RevenueBodyRenamed(choice, data, pred_formatted) ==
    [model_used |-> IF choice = "xgboost" THEN "XGBoost" ELSE "Random Forest",
     input_data |-> data, predicted_revenue |-> pred_formatted]

RevenueBody(choice, data, pred_formatted) ==
    [model_used |-> RevenueModelName(choice), input_data |-> data, next_month_revenue |-> pred_formatted]

AllBody(Group_info, group_model, model_name, pred_formatted) ==
    [product_group |-> GetOrNone(Group_info, "cluster_name"),
     business |-> GetOrNone(Group_info, "description"),
     recommended_action |-> GetOrNone(Group_info, "recommended_action"),
     next_month_revenue |-> pred_formatted,
     Models |-> <<group_model, model_name>>,
     cluster_name |-> GetOrNone(Group_info, "cluster_name"),
     description |-> GetOrNone(Group_info, "description"),
     next_month_revenue_formatted |-> pred_formatted]
    @@ ("Product Group" :> GetOrNone(Group_info, "cluster_name"))
    @@ ("Description" :> GetOrNone(Group_info, "description"))
    @@ ("Recommendation" :> GetOrNone(Group_info, "recommended_action"))
    @@ ("Next Month Revenue" :> pred_formatted)

\* DebugRequested as "if request.args.get('debug')", true of "0" too.
DebugRequestedTruthy(r) == r.args.debug # NoArg

\* if request.args.get('debug') in ('1', 'true', 'True')
DebugRequested(r) == r.args.debug \in {"1", "true", "True"}

DebugInfo(data, scaled, pred) ==
    [raw_regression_input |-> [f \in Range(RevenueRequired) |-> GetOrNone(data, f)],
     scaled_regression_input |-> scaled,
     raw_prediction |-> pred]

(***************************************************************************)
(* Handler frames.                                                         *)
(***************************************************************************)
\* The locals of a handler, plus history: calls lists the calls the handler
\* made into utils and the registry, exc / debug_exc the text of the exception
\* raised on the main path / in the debug block.
EmptyFrame ==
    [X |-> <<>>, cluster |-> 0, business |-> GroupFallback, group_model |-> None,
     Xr |-> <<>>, pred |-> 0, calls |-> <<>>, exc |-> None, debug_exc |-> None]

IdleRequest == [endpoint |-> "none", args |-> Args(NoArg, NoArg, NoArg, NoArg), data |-> <<>>]

\* step: the stage of the handler that makes the call.
Call(step, fn, on) == [step |-> step, fn |-> fn, on |-> on]

Init ==
    /\ models \in {MODELS(ms) : ms \in MinSamplesChoices}
    /\ pc = [t \in AllThreads |-> "idle"]
    /\ req = [t \in AllThreads |-> IdleRequest]
    /\ frame = [t \in AllThreads |-> EmptyFrame]
    /\ resp = [t \in AllThreads |-> NoResponse]

(***************************************************************************)
(* The handlers, step by step.                                             *)
(***************************************************************************)
\* return jsonify(...), status: the handler ends with this response.
Return(t, response) ==
    /\ resp' = [resp EXCEPT ![t] = response]
    /\ pc' = [pc EXCEPT ![t] = "done"]

Goto(t, label) ==
    /\ pc' = [pc EXCEPT ![t] = label]
    /\ UNCHANGED resp

\* The registry entry a handler's grouping step is made on.
GroupKey(r) == IF r.endpoint = "predict_group" THEN GroupChoice(r) ELSE AllGroupChoice(r)

\* The branch of "if choice == 'kmeans'" the handler takes.
TakesKMeansBranch(r) == GroupKey(r) = "kmeans"

\* The registry entry the else branch calls fit_predict on: MODELS[choice] in
\* predict_group, MODELS["dbscan"] in predict_all.
FitPredictKey(r) == IF r.endpoint = "predict_group" THEN GroupChoice(r) ELSE "dbscan"

\* The registry entry a handler's regression step is made on.
RevKey(r) == IF r.endpoint = "predict_revenue" THEN RevChoice(r) ELSE AllRevChoice(r)

\* The default of KMEANS_BUSINESS.get / DBSCAN_BUSINESS.get in each handler.
Fallback(r) == IF r.endpoint = "predict_group" THEN GroupFallback ELSE AllFallback

\* A request arrives on an idle thread.
Receive(t, requests) ==
    /\ pc[t] = "idle"
    /\ \E r \in requests :
        /\ req' = [req EXCEPT ![t] = r]
        /\ frame' = [frame EXCEPT ![t] = EmptyFrame]
        /\ resp' = [resp EXCEPT ![t] = NoResponse]
        /\ pc' = [pc EXCEPT ![t] = "validate"]
    /\ UNCHANGED models

Validation(r) ==
    CASE r.endpoint = "predict_group" -> ValidateGroup(r)
      [] r.endpoint = "predict_revenue" -> ValidateRevenue(r)
      [] OTHER -> ValidateAll(r)

\* Selector check, then required-field check; a failure answers 400.
Validate(t) ==
    /\ pc[t] = "validate"
    /\ \E v \in Validation(req[t]) :
       IF v.status # 0
       THEN Return(t, v)
       ELSE Goto(t, IF req[t].endpoint = "predict_revenue" THEN "prep_reg" ELSE "prep_group")
    /\ UNCHANGED <<models, req, frame>>

\* X_scaled = prepare_features_from_json(data)
PrepareFeatures(t, faults) ==
    /\ pc[t] = "prep_group"
    /\ \E ok \in Outcomes(Convertible(GroupFeatures, req[t].data), faults) :
        LET called == Append(frame[t].calls, Call("prepare", "prepare_features_from_json", "utils")) IN
        IF ok
        THEN /\ frame' = [frame EXCEPT ![t].calls = called,
                                       ![t].X = prepare_features_from_json(req[t].data)]
             /\ Goto(t, "cluster")
        ELSE /\ frame' = [frame EXCEPT ![t].calls = called, ![t].exc = PrepErrorText]
             /\ Return(t, FailedResponse(PrepErrorText))
    /\ UNCHANGED <<models, req>>

\* What follows the grouping step: predict_group answers, predict_all goes on.
AfterCluster(t, cluster, business, model_used) ==
    IF req[t].endpoint = "predict_group"
    THEN Return(t, [status |-> 200, body |-> GroupBody(model_used, cluster, business, req[t].data)])
    ELSE Goto(t, "prep_reg")

\* cluster = int(model.predict(X_scaled)[0]); business = KMEANS_BUSINESS.get(...)
PredictKMeans(t, faults) ==
    /\ pc[t] = "cluster"
    /\ TakesKMeansBranch(req[t])
    /\ \E ok \in Outcomes(TRUE, faults) :
        LET called == Append(frame[t].calls, Call("group", "predict", "kmeans"))
            cluster == KMeansPredict(frame[t].X)
            business == Get(KMEANS_BUSINESS, cluster, Fallback(req[t]))
        IN
        IF ok
        THEN /\ frame' = [frame EXCEPT ![t].calls = called, ![t].cluster = cluster,
                                       ![t].business = business, ![t].group_model = "KMeans"]
             /\ AfterCluster(t, cluster, business, "KMeans")
        ELSE /\ frame' = [frame EXCEPT ![t].calls = called, ![t].exc = InferErrorText]
             /\ Return(t, FailedResponse(InferErrorText))
    /\ UNCHANGED <<models, req>>

\* model.fit_predict(X_scaled), first half: the attribute lookup, then fit(X)
\* writes the estimator's fitted attributes.
FitPredict(t, faults) ==
    /\ pc[t] = "cluster"
    /\ ~TakesKMeansBranch(req[t])
    /\ LET key == FitPredictKey(req[t])
           called == Append(frame[t].calls, Call("group", "fit_predict", key))
       IN
       IF ~HasFitPredict(models[key])
       THEN \* AttributeError at the lookup: no method of the estimator is entered
            /\ frame' = [frame EXCEPT ![t].exc = AttributeErrorText]
            /\ Return(t, FailedResponse(AttributeErrorText))
            /\ UNCHANGED models
       ELSE \E ok \in Outcomes(TRUE, faults) :
            IF ok
            THEN /\ models' = [models EXCEPT
                        ![key].labels_ = DbscanLabels(models[key], frame[t].X),
                        ![key].components_ = DbscanComponents(models[key], frame[t].X)]
                 /\ frame' = [frame EXCEPT ![t].calls = called]
                 /\ Goto(t, "fit_read")
            ELSE /\ frame' = [frame EXCEPT ![t].calls = called, ![t].exc = InferErrorText]
                 /\ Return(t, FailedResponse(InferErrorText))
                 /\ UNCHANGED models
    /\ UNCHANGED req

\* int(labels[0])
FirstLabel(labels) == labels[1]

\* model.fit_predict(X_scaled), second half: return self.labels_; then
\* cluster = int(...[0]); business = DBSCAN_BUSINESS.get(...)
ReadLabels(t) ==
    /\ pc[t] = "fit_read"
    /\ LET key == FitPredictKey(req[t])
           cluster == FirstLabel(models[key].labels_)
           business == Get(DBSCAN_BUSINESS, cluster, Fallback(req[t]))
       IN
       /\ frame' = [frame EXCEPT ![t].cluster = cluster, ![t].business = business,
                                 ![t].group_model = "DBSCAN"]
       /\ AfterCluster(t, cluster, business, "DBSCAN")
    /\ UNCHANGED <<models, req>>

\* X_scaled / Xr = prepare_regression_features_from_json(data)
PrepareRegression(t, faults) ==
    /\ pc[t] = "prep_reg"
    /\ \E ok \in Outcomes(Convertible(RevenueRequired, req[t].data), faults) :
        LET called == Append(frame[t].calls, Call("prepare", "prepare_regression_features_from_json", "utils")) IN
        IF ok
        THEN /\ frame' = [frame EXCEPT ![t].calls = called,
                                       ![t].Xr = prepare_regression_features_from_json(req[t].data)]
             /\ Goto(t, "predict_rev")
        ELSE /\ frame' = [frame EXCEPT ![t].calls = called, ![t].exc = PrepErrorText]
             /\ Return(t, FailedResponse(PrepErrorText))
    /\ UNCHANGED <<models, req>>

\* try: pred = float(signed_expm1(pred)) except Exception: pass
PostProcess(raw, expm1_ok) == IF expm1_ok THEN signed_expm1(raw) ELSE raw

\* The success response of the regression step of each handler.
RevenueResponse(r, f, pred) ==
    IF r.endpoint = "predict_revenue"
    THEN [status |-> 200, body |-> RevenueBody(RevKey(r), r.data, FormatCurrency(pred))]
    ELSE [status |-> 200,
          body |-> AllBody(f.business, f.group_model, RevenueModelName(RevKey(r)), FormatCurrency(pred))]

\* pred = float(model.predict(X)[0]), post-processing, formatting and the
\* response body; predict_all goes on to the debug block when asked to.
PredictRevenue(t, faults) ==
    /\ pc[t] = "predict_rev"
    /\ \E ok \in Outcomes(TRUE, faults), expm1_ok \in Outcomes(TRUE, faults) :
        LET key == RevKey(req[t])
            called == Append(frame[t].calls, Call("revenue", "predict", key))
            pred == PostProcess(RegressorPredict(key, frame[t].Xr), expm1_ok)
        IN
        IF ok
        THEN /\ frame' = [frame EXCEPT ![t].calls = called, ![t].pred = pred]
             /\ resp' = [resp EXCEPT ![t] = RevenueResponse(req[t], frame[t], pred)]
             /\ pc' = [pc EXCEPT ![t] =
                        IF req[t].endpoint = "predict_all" /\ DebugRequested(req[t])
                        THEN "debug" ELSE "done"]
        ELSE /\ frame' = [frame EXCEPT ![t].calls = called, ![t].exc = InferErrorText]
             /\ Return(t, FailedResponse(InferErrorText))
    /\ UNCHANGED <<models, req>>

\* resp['debug'] = {...} / except Exception as e: resp['debug_error'] = str(e)
WithDebug(body, r, f, ok) ==
    IF ok
    THEN body @@ ("debug" :> DebugInfo(r.data, prepare_regression_features_from_json(r.data), f.pred))
    ELSE body @@ ("debug_error" :> PrepErrorText)

\* The debug block of predict_all.
AttachDebug(t, faults) ==
    /\ pc[t] = "debug"
    /\ \E ok \in Outcomes(Convertible(RevenueRequired, req[t].data), faults) :
        /\ frame' = [frame EXCEPT
                ![t].calls = Append(@, Call("debug", "prepare_regression_features_from_json", "utils")),
                ![t].debug_exc = IF ok THEN None ELSE PrepErrorText]
        /\ Return(t, [status |-> 200, body |-> WithDebug(resp[t].body, req[t], frame[t], ok)])
    /\ UNCHANGED <<models, req>>

\* The response has been sent; the thread is free for the next request.
Close(t) ==
    /\ pc[t] = "done"
    /\ pc' = [pc EXCEPT ![t] = "idle"]
    /\ req' = [req EXCEPT ![t] = IdleRequest]
    /\ frame' = [frame EXCEPT ![t] = EmptyFrame]
    /\ resp' = [resp EXCEPT ![t] = NoResponse]
    /\ UNCHANGED models

Step(t, faults) ==
    \/ Validate(t)
    \/ PrepareFeatures(t, faults)
    \/ PredictKMeans(t, faults)
    \/ FitPredict(t, faults)
    \/ ReadLabels(t)
    \/ PrepareRegression(t, faults)
    \/ PredictRevenue(t, faults)
    \/ AttachDebug(t, faults)
    \/ Close(t)

\* One request at a time, any request; every call into utils or an estimator
\* may raise.
Next == \E t \in SeqThreads : Receive(t, Requests) \/ Step(t, TRUE)

Spec == Init /\ [][Next]_vars

\* One request at a time, any request; utils and the estimators as spec.md
\* describes them: a fixed transform of numeric fields and estimators that
\* answer every numeric row, so a call raises only on input it cannot take.
NominalNext == \E t \in SeqThreads : Receive(t, Requests) \/ Step(t, FALSE)

NominalSpec == Init /\ [][NominalNext]_vars

\* Two threads handling grouping requests concurrently.
ConcNext == \E t \in ConcThreads : Receive(t, ConcRequests) \/ Step(t, TRUE)

ConcSpec == Init /\ [][ConcNext]_vars

(***************************************************************************)
(* Vocabulary of the properties.                                           *)
(***************************************************************************)
Done(t) == pc[t] = "done"

\* The request's selectors (defaults applied) are among the documented ones.
SelectorDocumented(r) ==
    CASE r.endpoint = "predict_group" -> GroupChoice(r) \in DocGroupModels
      [] r.endpoint = "predict_revenue" -> RevChoice(r) \in DocRevModels
      [] OTHER -> AllGroupChoice(r) \in DocGroupModels /\ AllRevChoice(r) \in DocRevModels

Required(r) ==
    CASE r.endpoint = "predict_group" -> GroupRequired
      [] r.endpoint = "predict_revenue" -> Range(RevenueRequired)
      [] OTHER -> AllRequired

Absent(r) == Required(r) \ DOMAIN r.data

\* The keys each endpoint's success response is documented to carry.
DocumentedKeys(r) ==
    CASE r.endpoint = "predict_group" -> {"model_used", "predicted_group", "group_info", "input_data"}
      [] r.endpoint = "predict_revenue" -> {"model_used", "input_data", "next_month_revenue"}
      [] OTHER -> {"product_group", "business", "recommended_action", "next_month_revenue", "Models",
                   "Product Group", "Description", "Recommendation", "Next Month Revenue",
                   "cluster_name", "description", "next_month_revenue_formatted"}

Restrict(f, keys) == [k \in keys |-> f[k]]

(***************************************************************************)
(* C1.  A selector outside the documented set is answered 400, whatever    *)
(* the body is.  Fails: predict_group accepts every key of MODELS.         *)
(***************************************************************************)
C1_UndocumentedSelectorIs400 ==
    \A t \in AllThreads :
        Done(t) /\ ~SelectorDocumented(req[t]) => resp[t].status = 400

(***************************************************************************)
(* C2.  With a documented selector and at least one required field absent  *)
(* from the JSON object, the response is 400 and its message lists exactly *)
(* the absent required fields, each once.                                  *)
(***************************************************************************)
C2_MissingFieldsNamedExactly ==
    \A t \in AllThreads :
        Done(t) /\ SelectorDocumented(req[t]) /\ Absent(req[t]) # {} =>
            /\ resp[t].status = 400
            /\ resp[t].body.error.msg = MissingFieldsMsg
            /\ Range(resp[t].body.error.detail) = Absent(req[t])
            /\ Len(resp[t].body.error.detail) = Cardinality(Absent(req[t]))

\* A request that lacks two or more, but not all, required fields of a set
\* has been answered.
C2_Witness ==
    \E t \in AllThreads :
        /\ Done(t) /\ SelectorDocumented(req[t])
        /\ Cardinality(Absent(req[t])) >= 2 /\ Absent(req[t]) # Required(req[t])
        /\ req[t].endpoint = "predict_all"
        /\ resp[t].status = 400

(***************************************************************************)
(* C3.  As claimed: documented selector and every required field present   *)
(* give a success response with the documented keys.  Fails on a body in   *)
(* which a required field is present but is not a number: the feature      *)
(* preparation raises and the response is 500.                             *)
(***************************************************************************)
SuccessWellFormed(t) ==
    /\ resp[t].status = 200
    /\ DocumentedKeys(req[t]) \subseteq DOMAIN resp[t].body
    /\ req[t].endpoint = "predict_all" =>
        /\ resp[t].body["Next Month Revenue"] = resp[t].body.next_month_revenue
        /\ resp[t].body.next_month_revenue_formatted = resp[t].body.next_month_revenue

RequiredNumeric(r) == \A f \in Required(r) : IsNumber(r.data[f])

C4_RegistryAsLoaded == models \in {MODELS(ms) : ms \in MinSamplesChoices}

(***************************************************************************)
(* What a request handled alone is answered: the handler as a function of  *)
(* the request and the loaded registry.                                    *)
(***************************************************************************)
SoloCluster(r) ==
    IF TakesKMeansBranch(r)
    THEN KMeansPredict(prepare_features_from_json(r.data))
    ELSE FirstLabel(DbscanLabels(models[FitPredictKey(r)], prepare_features_from_json(r.data)))

SoloInfo(r) ==
    Get(IF TakesKMeansBranch(r) THEN KMEANS_BUSINESS ELSE DBSCAN_BUSINESS, SoloCluster(r), Fallback(r))

SoloGroupModel(r) == IF TakesKMeansBranch(r) THEN "KMeans" ELSE "DBSCAN"

\* signed_expm1 may raise, and then the prediction stays as predicted.
SoloPreds(r) ==
    {PostProcess(RegressorPredict(RevKey(r), prepare_regression_features_from_json(r.data)), b) :
        b \in BOOLEAN}

SoloAllBodies(r) ==
    {AllBody(SoloInfo(r), SoloGroupModel(r), RevenueModelName(RevKey(r)), FormatCurrency(p)) :
        p \in SoloPreds(r)}

(***************************************************************************)
(* C6.  As claimed: every exception of a feature-preparation or inference  *)
(* call is answered 500 with the exception text.  Fails in the debug block *)
(* of predict_all.                                                         *)
(***************************************************************************)
ReportedAs500(t, text) ==
    /\ resp[t].status = 500
    /\ DOMAIN resp[t].body = {"error"}
    /\ resp[t].body.error = [msg |-> FailedMsg, detail |-> <<text>>]

C6_EveryExceptionIs500 ==
    \A t \in AllThreads :
        Done(t) =>
            /\ frame[t].exc # None => ReportedAs500(t, frame[t].exc)
            /\ frame[t].debug_exc # None => ReportedAs500(t, frame[t].debug_exc)

\* C6 as amended: an exception raised on the main path is answered 500 with
\* its text and nothing else; one raised by the feature preparation of the
\* debug block is reported under debug_error in the complete 200 response.
C6_MainPathExceptionIs500 ==
    \A t \in AllThreads :
        Done(t) =>
            /\ frame[t].exc # None => ReportedAs500(t, frame[t].exc)
            /\ frame[t].debug_exc # None =>
                /\ resp[t].status = 200
                /\ resp[t].body.debug_error = frame[t].debug_exc
                /\ "debug" \notin DOMAIN resp[t].body
                /\ DocumentedKeys(req[t]) \subseteq DOMAIN resp[t].body

\* predict_all has answered a request whose regressor raised.
C6_Witness ==
    \E t \in AllThreads :
        /\ Done(t) /\ req[t].endpoint = "predict_all"
        /\ frame[t].exc = InferErrorText
        /\ Len(frame[t].calls) = 4
        /\ resp[t].status = 500

(***************************************************************************)
(* C7.  Stages run in order and the first failure ends the request: a 400  *)
(* has made no preparation or inference call, an undocumented selector is  *)
(* reported before missing fields, group_model before rev_model.  Fails:   *)
(* predict_group lets a regressor's name through to the field check.       *)
(***************************************************************************)
InvalidSelectorMsgs == {InvalidGroupModelMsg, InvalidRevModelMsg, InvalidAllGroupMsg, InvalidAllRevMsg}

C7_StagesInOrder ==
    \A t \in AllThreads :
        Done(t) =>
            /\ resp[t].status = 400 => frame[t].calls = <<>>
            /\ ~SelectorDocumented(req[t]) /\ Absent(req[t]) # {} =>
                /\ resp[t].status = 400
                /\ resp[t].body.error.msg \in InvalidSelectorMsgs
            /\ /\ req[t].endpoint = "predict_all"
               /\ AllGroupChoice(req[t]) \notin DocGroupModels
               /\ AllRevChoice(req[t]) \notin DocRevModels
               => resp[t].body.error.msg = InvalidAllGroupMsg

(***************************************************************************)
(* C8.  The model a success response names is the one invoked and the one  *)
(* the selector names, and no grouping step is made on a regressor nor a   *)
(* regression step on a clustering model (predict_group given a            *)
(* regressor's name fails at the fit_predict lookup, before any call).     *)
(***************************************************************************)
CallsOf(t, step) == {frame[t].calls[i].on : i \in {j \in 1..Len(frame[t].calls) : frame[t].calls[j].step = step}}

DisplayName(key) ==
    CASE key = "kmeans" -> "KMeans" [] key = "dbscan" -> "DBSCAN"
      [] key = "xgboost" -> "XGBoost" [] key = "random_forest" -> "Random Forest"
      [] OTHER -> None

C8_NamedModelIsInvoked ==
    \A t \in AllThreads :
        /\ CallsOf(t, "group") \subseteq DocGroupModels
        /\ CallsOf(t, "revenue") \subseteq DocRevModels
        /\ Done(t) /\ resp[t].status = 200 =>
            CASE req[t].endpoint = "predict_group" ->
                    /\ CallsOf(t, "group") = {GroupChoice(req[t])}
                    /\ resp[t].body.model_used = DisplayName(GroupChoice(req[t]))
              [] req[t].endpoint = "predict_revenue" ->
                    /\ CallsOf(t, "revenue") = {RevChoice(req[t])}
                    /\ resp[t].body.model_used = DisplayName(RevChoice(req[t]))
              [] OTHER ->
                    /\ CallsOf(t, "group") = {AllGroupChoice(req[t])}
                    /\ CallsOf(t, "revenue") = {AllRevChoice(req[t])}
                    /\ resp[t].body.Models =
                        <<DisplayName(AllGroupChoice(req[t])), DisplayName(AllRevChoice(req[t]))>>

\* predict_all has answered with success a request that names dbscan and
\* random_forest, having called both.
C8_Witness ==
    \E t \in AllThreads :
        /\ Done(t) /\ resp[t].status = 200 /\ req[t].endpoint = "predict_all"
        /\ req[t].args.group_model = "dbscan" /\ req[t].args.rev_model = "random_forest"
        /\ CallsOf(t, "group") = {"dbscan"} /\ CallsOf(t, "revenue") = {"random_forest"}

(***************************************************************************)
(* C9.  predict_all carries a debug entry only when debug asks for it,     *)
(* never when debug is absent or 0, and the other keys of the response are *)
(* what the payload and the selectors alone determine.                     *)
(***************************************************************************)
C9_DebugIsAdditive ==
    \A t \in AllThreads :
        Done(t) /\ req[t].endpoint = "predict_all" /\ resp[t].status = 200 =>
            /\ "debug" \in DOMAIN resp[t].body => req[t].args.debug \in {"1", "true", "True"}
            /\ req[t].args.debug \in {NoArg, "0"} =>
                DOMAIN resp[t].body = DocumentedKeys(req[t])
            /\ Restrict(resp[t].body, DocumentedKeys(req[t])) \in SoloAllBodies(req[t])

\* predict_all has answered a debug=1 request with the debug entry attached.
C9_Witness ==
    \E t \in AllThreads :
        /\ Done(t) /\ req[t].endpoint = "predict_all" /\ resp[t].status = 200
        /\ req[t].args.debug = "1"
        /\ "debug" \in DOMAIN resp[t].body

(***************************************************************************)
(* C10.  A cluster with no entry in the interpretation table is answered   *)
(* with success and the fallback interpretation, which has the fields of a *)
(* known cluster's interpretation (name, description, recommended action)  *)
(* on both endpoints.  Fails: predict_group's fallback has no              *)
(* recommended_action.                                                     *)
(***************************************************************************)
InterpretationFields == {"cluster_name", "description", "recommended_action"}

UnknownCluster(t) ==
    /\ frame[t].group_model # None
    /\ frame[t].cluster \notin
        DOMAIN (IF frame[t].group_model = "KMeans" THEN KMEANS_BUSINESS ELSE DBSCAN_BUSINESS)

C10_FallbackInterpretation ==
    \A t \in AllThreads :
        Done(t) /\ UnknownCluster(t) /\ frame[t].exc = None =>
            /\ resp[t].status = 200
            /\ IF req[t].endpoint = "predict_group"
               THEN /\ resp[t].body.group_info.cluster_name = "unknown product cluster"
                    /\ DOMAIN resp[t].body.group_info = InterpretationFields
               ELSE /\ resp[t].body.product_group = "unknown product cluster"
                    /\ resp[t].body.business # None
                    /\ resp[t].body.recommended_action # None

====
